---- MODULE Spec2Model ----
(***************************************************************************)
(* Model of marche_type.py: the IDM acceleration law, the follower         *)
(* simulator MarcheTypeSimulator.simulate_idm and the route profile        *)
(* generator MarcheTypeSimulator.simulate_route, as called from main.py.   *)
(*                                                                         *)
(* Python floats are represented in fixed point: the real r is the integer *)
(* r * Scale, products and quotients are rounded down to the grid.  The    *)
(* input sets of the route generator are chosen on a sub-grid on which     *)
(* every product the generator forms is exact.                             *)
(***************************************************************************)
EXTENDS Integers, Sequences, FiniteSets, TLC

VARIABLES
    mode,           \* which entry point main() calls: "idm" or "route" (args.plot)
    pc,             \* position in the running method
    dt,             \* self.dt
    params,         \* self.params (an IDMParameters record)
    heap,           \* the VehicleState objects, by reference (index)
    lead_init,      \* reference to the caller's lead_init object
    follower_init,  \* reference to the caller's follower_init object
    lead,           \* simulate_idm's local lead (a reference, 0 before it is set)
    follower,       \* simulate_idm's local follower (a reference)
    steps,          \* argument steps
    lead_speed,     \* argument lead_speed
    i,              \* number of iterations of "for _ in range(steps)" done
    a,              \* simulate_idm's local a (last acceleration computed)
    s,              \* idm_acceleration's local s at its last call (the gap)
    result,         \* simulate_idm's result list
    stations,       \* simulate_route's argument stations
    dwell_time,     \* argument dwell_time
    accel,          \* argument accel
    decel,          \* argument decel
    v_max,          \* argument v_max
    idx,            \* the leg loop's idx
    j,              \* number of iterations of the dwell loop done in this leg
    t,              \* local t
    x,              \* local x
    v,              \* local v
    time,           \* the list time
    pos,            \* the list pos
    vel,            \* the list vel
    kind,           \* history: which append statement produced each sample
    fargs           \* the arguments of a running simulate_marche_type call
                    \* (a one-element sequence), <<>> when it was not called

idmVars == <<dt, params, heap, lead_init, follower_init, lead, follower,
             steps, lead_speed, i, a, s, result>>

routeVars == <<stations, dwell_time, accel, decel, v_max, idx, j, t, x, v,
               time, pos, vel, kind>>

vars == <<mode, pc, idmVars, routeVars, fargs>>

-----------------------------------------------------------------------------
(* Fixed-point arithmetic standing for Python's float operations.          *)

Scale == 10 * 10 * 10

\* Largest magnitude a product is allowed to take before it is rounded.
FloatMax == 10 * 10 * 10 * 10 * 10 * 10 * 10 * 10 * 10

Max(p, q) == IF p >= q THEN p ELSE q

Min(p, q) == IF p <= q THEN p ELSE q

Abs(p) == IF p < 0 THEN -p ELSE p

\* p / q on integers, rounded down; q # 0.
FloorDiv(p, q) == IF q > 0 THEN p \div q ELSE (-p) \div (-q)

\* p * q, saturating at +-FloatMax.
SatMul(p, q) ==
    IF p = 0 \/ q = 0 THEN 0
    ELSE IF Abs(p) > FloatMax \div Abs(q)
         THEN (IF (p < 0) = (q < 0) THEN FloatMax ELSE -FloatMax)
         ELSE p * q

\* The float product p * q.
FMul(p, q) == FloorDiv(SatMul(p, q), Scale)

\* The float quotient p / q, q # 0.
FDiv(p, q) == FloorDiv(SatMul(p, Scale), q)

\* The float power p ** n for an int n >= 0.
RECURSIVE FPow(_, _)
FPow(p, n) == IF n = 0 THEN Scale ELSE FMul(FPow(p, n - 1), p)

\* Integer square root by bisection: the r in lo..hi with r*r <= n < (r+1)*(r+1).
RECURSIVE ISqrt(_, _, _)
ISqrt(n, lo, hi) ==
    IF lo >= hi THEN lo
    ELSE LET mid == (lo + hi + 1) \div 2
         IN IF mid * mid <= n THEN ISqrt(n, mid, hi) ELSE ISqrt(n, lo, mid - 1)

\* math.sqrt(p) for p >= 0.
Sqrt(p) == ISqrt(p * Scale, 0, Min(p * Scale, 40000))

-----------------------------------------------------------------------------
(* Data types.                                                             *)

VehicleState(px, pv) == [x |-> px, v |-> pv]

IDMParameters(pv0, pT, pa, pb, ps0, pdelta) ==
    [v0 |-> pv0, T |-> pT, a |-> pa, b |-> pb, s0 |-> ps0, delta |-> pdelta]

-----------------------------------------------------------------------------
(* The IDM acceleration law.                                               *)

\* The desired dynamic gap s_star of idm_acceleration.
DesiredGap(ld, fw, p) ==
    LET dv == fw.v - ld.v
    IN p.s0 + Max(0, FMul(fw.v, p.T)
                      + FDiv(FMul(fw.v, dv), 2 * Sqrt(FMul(p.a, p.b))))

\* The main IDM formula, for a gap gap > 0.
\* Variant: the free-road term (v / v0) ** delta left out.
IdmFormula_no_free_road(ld, fw, p, gap) ==
    FMul(p.a, Scale - FPow(FDiv(DesiredGap(ld, fw, p), gap), 2))

IdmFormula(ld, fw, p, gap) ==
    FMul(p.a, Scale - FPow(FDiv(fw.v, p.v0), p.delta)
                    - FPow(FDiv(DesiredGap(ld, fw, p), gap), 2))

\* Variant: the fallback taken for gap < 0 only, and -a returned at gap = 0.
idm_acceleration_wrong_fallback(ld, fw, p) ==
    LET gap == ld.x - fw.x
    IN IF gap < 0 THEN -p.b
       ELSE IF gap = 0 THEN -p.a
       ELSE IdmFormula(ld, fw, p, gap)

idm_acceleration(ld, fw, p) ==
    LET gap == ld.x - fw.x
    IN IF gap <= 0 THEN -p.b ELSE IdmFormula(ld, fw, p, gap)

-----------------------------------------------------------------------------
(* Inputs.                                                                 *)

\* Largest steps argument of the enumerated follower runs.
MaxSteps == 3

\* main(): IDMParameters(v0=15.0, T=1.5, a=0.6, b=1.5, s0=2.0), delta = 4.
DemoParams == IDMParameters(15 * Scale, ((3 * Scale) \div 2), ((6 * Scale) \div 10),
                            ((3 * Scale) \div 2), 2 * Scale, 4)

\* main(): steps=120.
DemoSteps == 120

\* main(): lead_speed=10.0 and lead_init.v = 10.0.
DemoLeadSpeed == 10 * Scale

\* The default dt of MarcheTypeSimulator.__init__, 0.5.
DefaultDt == Scale \div 2

ParamSet == {DemoParams,
             IDMParameters(10 * Scale, Scale, Scale, 2 * Scale, Scale, 2)}

DtSet == {DefaultDt, Scale}

LeadXSet == {0, 5 * Scale, 50 * Scale}

LeadVSet == {0, 10 * Scale}

FollowerXSet == {0, 5 * Scale}

FollowerVSet == {-Scale, 0, 8 * Scale}

LeadSpeedSet == {-2 * Scale, 0, 10 * Scale}

\* Largest number of stations of the enumerated routes.
MaxStations == 3

StationSet == {0, (7 * Scale) \div 2, 5 * Scale}

DwellSet == {0, ((12 * Scale) \div 10)}

AccelSet == {Scale \div 2, 2 * Scale}

DecelSet == {-(Scale \div 2), Scale \div 2, 2 * Scale}

VMaxSet == {Scale, 20 * Scale}

\* The sequences over S of length n.
RECURSIVE SeqsOfLen(_, _)
SeqsOfLen(S, n) ==
    IF n = 0 THEN {<<>>}
    ELSE {Append(q, e) : q \in SeqsOfLen(S, n - 1), e \in S}

StationLists == UNION {SeqsOfLen(StationSet, n) : n \in 1..MaxStations}

\* The state in which the route generator's variables rest during a follower run.
RouteIdle ==
    /\ stations = <<>> /\ dwell_time = 0 /\ accel = 0 /\ decel = 0 /\ v_max = 0
    /\ idx = 0 /\ j = 0 /\ t = 0 /\ x = 0 /\ v = 0
    /\ time = <<>> /\ pos = <<>> /\ vel = <<>> /\ kind = <<>>

\* The state in which the follower simulator's variables rest during a route run.
IdmIdle ==
    /\ params = DemoParams
    /\ heap = <<>> /\ lead_init = 0 /\ follower_init = 0 /\ lead = 0 /\ follower = 0
    /\ steps = 0 /\ lead_speed = 0 /\ i = 0 /\ a = 0 /\ s = 0 /\ result = <<>>

\* A call simulate_idm(lead_init, follower_init, steps, lead_speed) on
\* MarcheTypeSimulator(p, d), about to run.
IdmCall(li, fi, p, d, n, ls) ==
    /\ mode = "idm" /\ pc = "idm_enter"
    /\ params = p /\ dt = d
    /\ heap = <<li, fi>> /\ lead_init = 1 /\ follower_init = 2
    /\ lead = 0 /\ follower = 0
    /\ steps = n /\ lead_speed = ls
    /\ i = 0 /\ a = 0 /\ s = 0 /\ result = <<>>
    /\ RouteIdle
    /\ fargs = <<>>

\* main() without --plot.
InitDemo ==
    IdmCall(VehicleState(50 * Scale, 10 * Scale), VehicleState(0, 0),
            DemoParams, DefaultDt, DemoSteps, DemoLeadSpeed)

InitIdm ==
    \E lx \in LeadXSet, lv \in LeadVSet, fx \in FollowerXSet, fv \in FollowerVSet,
       p \in ParamSet, d \in DtSet, n \in 0..MaxSteps, ls \in LeadSpeedSet :
        IdmCall(VehicleState(lx, lv), VehicleState(fx, fv), p, d, n, ls)

\* A call simulate_marche_type(lead_init, follower_init, params, dt, steps,
\* lead_speed), about to run: no simulator exists yet.
InitFree ==
    \E lx \in LeadXSet, lv \in LeadVSet, fx \in FollowerXSet, fv \in FollowerVSet,
       p \in ParamSet, d \in DtSet, n \in 0..MaxSteps, ls \in LeadSpeedSet :
        /\ mode = "free" /\ pc = "free_enter"
        /\ heap = <<VehicleState(lx, lv), VehicleState(fx, fv)>>
        /\ fargs = <<[lead_init |-> 1, follower_init |-> 2, params |-> p,
                      dt |-> d, steps |-> n, lead_speed |-> ls]>>
        /\ params = DemoParams /\ dt = 0
        /\ lead_init = 0 /\ follower_init = 0 /\ lead = 0 /\ follower = 0
        /\ steps = 0 /\ lead_speed = 0
        /\ i = 0 /\ a = 0 /\ s = 0 /\ result = <<>>
        /\ RouteIdle

-----------------------------------------------------------------------------
(* simulate_marche_type.                                                   *)

\* simulator = MarcheTypeSimulator(params, dt);
\* return simulator.simulate_idm(lead_init=..., follower_init=..., steps=...,
\* lead_speed=...)
\* Variant: the simulator built as MarcheTypeSimulator(params), with the
\* default dt.
FreeCall_default_dt ==
    /\ pc = "free_enter"
    /\ params' = fargs[1].params
    /\ dt' = DefaultDt
    /\ lead_init' = fargs[1].lead_init
    /\ follower_init' = fargs[1].follower_init
    /\ steps' = fargs[1].steps
    /\ lead_speed' = fargs[1].lead_speed
    /\ mode' = "idm"
    /\ pc' = "idm_enter"
    /\ UNCHANGED <<fargs, heap, lead, follower, i, a, s, result, routeVars>>

FreeCall ==
    /\ pc = "free_enter"
    /\ params' = fargs[1].params
    /\ dt' = fargs[1].dt
    /\ lead_init' = fargs[1].lead_init
    /\ follower_init' = fargs[1].follower_init
    /\ steps' = fargs[1].steps
    /\ lead_speed' = fargs[1].lead_speed
    /\ mode' = "idm"
    /\ pc' = "idm_enter"
    /\ UNCHANGED <<fargs, heap, lead, follower, i, a, s, result, routeVars>>

-----------------------------------------------------------------------------
(* MarcheTypeSimulator.simulate_idm.                                       *)

\* VehicleState(o.x, o.v) for the object at reference ref: a new object.
\* Variant: the caller's object used as it is (lead = lead_init).
CopyState_alias(h, ref) == [heap |-> h, ref |-> ref]

CopyState(h, ref) ==
    [heap |-> Append(h, VehicleState(h[ref].x, h[ref].v)), ref |-> Len(h) + 1]

\* lead = VehicleState(...); follower = VehicleState(...); result = [].
IdmEnter ==
    /\ pc = "idm_enter"
    /\ LET c1 == CopyState(heap, lead_init)
           c2 == CopyState(c1.heap, follower_init)
       IN /\ heap' = c2.heap
          /\ lead' = c1.ref
          /\ follower' = c2.ref
    /\ result' = <<>>
    /\ pc' = "idm_loop"
    /\ UNCHANGED <<mode, fargs, dt, params, lead_init, follower_init, steps, lead_speed,
                   i, a, s, routeVars>>

\* lead.v = lead_speed; lead.x += lead.v * self.dt
\* Variant: the position advanced with the old velocity, before lead_speed
\* is assigned.
AdvanceLead_position_first(h, ld, ls, d) ==
    LET h1 == [h EXCEPT ![ld].x = @ + FMul(h[ld].v, d)]
    IN [h1 EXCEPT ![ld].v = ls]

AdvanceLead(h, ld, ls, d) ==
    LET h1 == [h EXCEPT ![ld].v = ls]
    IN [h1 EXCEPT ![ld].x = @ + FMul(h1[ld].v, d)]

\* max(0.0, follower.v + a * self.dt)
\* Variant: without the clamp at zero.
FollowerVelocity_noclamp(fv, acc, d) == fv + FMul(acc, d)

FollowerVelocity(fv, acc, d) == Max(0, fv + FMul(acc, d))

\* follower.v = ...; follower.x += follower.v * self.dt
AdvanceFollower(h, fw, acc, d) ==
    LET h1 == [h EXCEPT ![fw].v = FollowerVelocity(@, acc, d)]
    IN [h1 EXCEPT ![fw].x = @ + FMul(h1[fw].v, d)]

\* The loop test of "for _ in range(steps)" after done iterations.
\* Variant: one iteration too many.
LoopContinues_extra(done, n) == done <= n

LoopContinues(done, n) == done < n

\* One iteration of the for loop.
IdmStep ==
    /\ pc = "idm_loop"
    /\ LoopContinues(i, steps)
    /\ LET h1 == AdvanceLead(heap, lead, lead_speed, dt)
           acc == idm_acceleration(h1[lead], h1[follower], params)
           h2 == AdvanceFollower(h1, follower, acc, dt)
       IN /\ s' = h1[lead].x - h1[follower].x
          /\ a' = acc
          /\ heap' = h2
          /\ result' = Append(result, <<h2[follower].x, h2[follower].v>>)
    /\ i' = i + 1
    /\ UNCHANGED <<mode, fargs, pc, dt, params, lead_init, follower_init, lead, follower,
                   steps, lead_speed, routeVars>>

\* return result
IdmReturn ==
    /\ pc = "idm_loop"
    /\ ~LoopContinues(i, steps)
    /\ pc' = "idm_done"
    /\ UNCHANGED <<mode, fargs, idmVars, routeVars>>

\* A call simulate_route(st, dw, ac, de, vm) on MarcheTypeSimulator(params, d).
RouteCall(st, dw, ac, de, vm, d) ==
    /\ mode = "route" /\ pc = "route_enter"
    /\ dt = d
    /\ stations = st /\ dwell_time = dw /\ accel = ac /\ decel = de /\ v_max = vm
    /\ idx = 0 /\ j = 0 /\ t = 0 /\ x = 0 /\ v = 0
    /\ time = <<>> /\ pos = <<>> /\ vel = <<>> /\ kind = <<>>
    /\ IdmIdle
    /\ fargs = <<>>

InitRoute ==
    \E st \in StationLists, dw \in DwellSet, ac \in AccelSet, de \in DecelSet,
       vm \in VMaxSet, d \in DtSet :
        RouteCall(st, dw, ac, de, vm, d)

\* main() with --plot: sim.simulate_route([0, 300, 800, 1500], dwell_time=30.0)
\* with the defaults accel=0.7, decel=0.7, v_max=20.0 and dt=0.5.
DemoStations == <<0, 300 * Scale, 800 * Scale, 1500 * Scale>>

DemoDwell == 30 * Scale

DefaultAccel == (7 * Scale) \div 10

DefaultDecel == (7 * Scale) \div 10

DefaultVMax == 20 * Scale

InitRouteDemo ==
    RouteCall(DemoStations, DemoDwell, DefaultAccel, DefaultDecel, DefaultVMax,
              DefaultDt)

-----------------------------------------------------------------------------
(* MarcheTypeSimulator.simulate_route.                                     *)

\* stations[idx] (Python indexes from 0).
target == stations[idx + 1]

\* time = [0.0]; pos = [stations[0]]; vel = [0.0]; t = 0.0; x = stations[0]; v = 0.0
\* Variant: the run started at position 0.0 instead of stations[0].
RouteEnter_at_zero ==
    /\ pc = "route_enter"
    /\ time' = <<0>> /\ pos' = <<0>> /\ vel' = <<0>>
    /\ kind' = <<"init">>
    /\ t' = 0 /\ x' = 0 /\ v' = 0
    /\ idx' = 1
    /\ pc' = "route_leg"
    /\ UNCHANGED <<mode, fargs, idmVars, stations, dwell_time, accel, decel, v_max, j>>

RouteEnter ==
    /\ pc = "route_enter"
    /\ time' = <<0>> /\ pos' = <<stations[1]>> /\ vel' = <<0>>
    /\ kind' = <<"init">>
    /\ t' = 0 /\ x' = stations[1] /\ v' = 0
    /\ idx' = 1
    /\ pc' = "route_leg"
    /\ UNCHANGED <<mode, fargs, idmVars, stations, dwell_time, accel, decel, v_max, j>>

\* v ** 2 / (2 * decel)
StoppingDist(vv, de) == FloorDiv(SatMul(vv, vv), 2 * de)

\* The value of v after the if/else of the moving loop.
\* Variant: accelerating without the cap at v_max.
NextVelocity_unbounded(vv, dist_left, ac, de, vm, d) ==
    IF dist_left <= StoppingDist(vv, de)
    THEN Max(0, vv - FMul(de, d))
    ELSE vv + FMul(ac, d)

\* Variant: braking without the clamp at zero.
NextVelocity_noclamp(vv, dist_left, ac, de, vm, d) ==
    IF dist_left <= StoppingDist(vv, de)
    THEN vv - FMul(de, d)
    ELSE IF vv < vm THEN Min(vm, vv + FMul(ac, d)) ELSE vv

\* Variant: braking begins one step of travel at v_max early.
NextVelocity_margin(vv, dist_left, ac, de, vm, d) ==
    IF dist_left <= StoppingDist(vv, de) + FMul(vm, d)
    THEN Max(0, vv - FMul(de, d))
    ELSE IF vv < vm THEN Min(vm, vv + FMul(ac, d)) ELSE vv

NextVelocity(vv, dist_left, ac, de, vm, d) ==
    IF dist_left <= StoppingDist(vv, de)
    THEN Max(0, vv - FMul(de, d))
    ELSE IF vv < vm THEN Min(vm, vv + FMul(ac, d)) ELSE vv

\* The test of "while x < target".
\* Variant: while x != target.
StillMoving_until_equal(px, tg) == px # tg

StillMoving(px, tg) == px < tg

\* One iteration of the while loop.
RouteMove ==
    /\ pc = "route_leg"
    /\ idx < Len(stations)
    /\ StillMoving(x, target)
    /\ LET v1 == NextVelocity(v, target - x, accel, decel, v_max, dt)
           x1 == x + FMul(v1, dt)
           t1 == t + dt
       IN /\ v' = v1 /\ x' = x1 /\ t' = t1
          /\ time' = Append(time, t1)
          /\ pos' = Append(pos, x1)
          /\ vel' = Append(vel, v1)
          /\ kind' = Append(kind, "move")
    /\ UNCHANGED <<mode, fargs, pc, idmVars, stations, dwell_time, accel, decel, v_max,
                   idx, j>>

\* The (time, position, velocity) appended after the while loop.
\* Variant: the loop's last x and v appended as they are.
ArrivalSample_unsnapped(tt, px, vv, tg) == <<tt, px, vv>>

\* Variant: the arrival sample stamped one step later.
ArrivalSample_late(tt, px, vv, tg) == <<tt + dt, tg, 0>>

ArrivalSample(tt, px, vv, tg) == <<tt, tg, 0>>

\* x = target; time.append(t); pos.append(x); vel.append(0.0)
RouteArrive ==
    /\ pc = "route_leg"
    /\ idx < Len(stations)
    /\ ~StillMoving(x, target)
    /\ LET smp == ArrivalSample(t, x, v, target)
       IN /\ x' = target
          /\ time' = Append(time, smp[1])
          /\ pos' = Append(pos, smp[2])
          /\ vel' = Append(vel, smp[3])
          /\ kind' = Append(kind, "arrive")
    /\ j' = 0
    /\ pc' = "route_dwell"
    /\ UNCHANGED <<mode, fargs, idmVars, stations, dwell_time, accel, decel, v_max, idx,
                   t, v>>

\* int(p) for a float p: truncation towards zero.
IntOf(p) == IF p >= 0 THEN p \div Scale ELSE -((-p) \div Scale)

\* int(dwell_time / self.dt)
\* Variant: one dwell sample too many.
DwellSteps_extra(dw, d) == IntOf(FDiv(dw, d)) + 1

DwellSteps(dw, d) == IntOf(FDiv(dw, d))

\* One iteration of the dwell loop.
\* Variant: pos.append(x) forgotten.
RouteDwell_no_pos ==
    /\ pc = "route_dwell"
    /\ j < DwellSteps(dwell_time, dt)
    /\ t' = t + dt
    /\ time' = Append(time, t + dt)
    /\ vel' = Append(vel, 0)
    /\ kind' = Append(kind, "dwell")
    /\ j' = j + 1
    /\ UNCHANGED <<mode, fargs, pc, idmVars, stations, dwell_time, accel, decel, v_max,
                   idx, x, v, pos>>

RouteDwell ==
    /\ pc = "route_dwell"
    /\ j < DwellSteps(dwell_time, dt)
    /\ t' = t + dt
    /\ time' = Append(time, t + dt)
    /\ pos' = Append(pos, x)
    /\ vel' = Append(vel, 0)
    /\ kind' = Append(kind, "dwell")
    /\ j' = j + 1
    /\ UNCHANGED <<mode, fargs, pc, idmVars, stations, dwell_time, accel, decel, v_max,
                   idx, x, v>>

\* v = 0.0, and the for loop's next idx.
RouteNextLeg ==
    /\ pc = "route_dwell"
    /\ ~(j < DwellSteps(dwell_time, dt))
    /\ v' = 0
    /\ idx' = idx + 1
    /\ pc' = "route_leg"
    /\ UNCHANGED <<mode, fargs, idmVars, stations, dwell_time, accel, decel, v_max, j,
                   t, x, time, pos, vel, kind>>

\* return time, pos, vel
RouteReturn ==
    /\ pc = "route_leg"
    /\ ~(idx < Len(stations))
    /\ pc' = "route_done"
    /\ UNCHANGED <<mode, fargs, idmVars, routeVars>>

-----------------------------------------------------------------------------
(* The program.                                                            *)

Init == InitDemo \/ InitIdm \/ InitFree \/ InitRoute \/ InitRouteDemo

Next ==
    \/ FreeCall
    \/ IdmEnter
    \/ IdmStep
    \/ IdmReturn
    \/ RouteEnter
    \/ RouteMove
    \/ RouteArrive
    \/ RouteDwell
    \/ RouteNextLeg
    \/ RouteReturn

Spec == Init /\ [][Next]_vars

\* What the for loop of simulate_idm does to its counter: the part of
\* IdmStep that decides whether the loop goes on.
IdmIterates ==
    /\ pc = "idm_loop"
    /\ LoopContinues(i, steps)
    /\ i' = i + 1

\* The interpreter runs simulate_idm on: the copies are made, the loop body
\* (which neither blocks nor raises for well-formed parameters) runs while
\* range(steps) is not exhausted, and the method then returns.
FairIdm ==
    Spec /\ WF_vars(IdmEnter) /\ WF_i(IdmIterates) /\ WF_vars(IdmReturn)

\* An iteration of the while loop of simulate_route, seen on the clock.
RouteTicks ==
    /\ pc = "route_leg"
    /\ idx < Len(stations)
    /\ StillMoving(x, target)
    /\ t' = t + dt

\* An iteration of the dwell loop, seen on its counter.
DwellTicks ==
    /\ pc = "route_dwell"
    /\ j < DwellSteps(dwell_time, dt)
    /\ j' = j + 1

\* The interpreter runs simulate_route on: each loop body (which neither
\* blocks nor raises for decel # 0) runs while its test holds, and the
\* statements between the loops are executed.
FairRoute ==
    Spec /\ WF_vars(RouteEnter) /\ WF_t(RouteTicks) /\ WF_vars(RouteArrive)
         /\ WF_j(DwellTicks) /\ WF_vars(RouteNextLeg) /\ WF_vars(RouteReturn)

-----------------------------------------------------------------------------
(* Properties of the follower simulator.                                   *)

\* The velocity of sample k of simulate_idm's result.
ResultV(k) == result[k][2]

\* C1: whenever the gap lead.x - follower.x seen by idm_acceleration is less
\* than or equal to 0, the acceleration it returns is exactly -params.b,
\* whatever the velocities and the parameter set.
C1_FallbackIsMinusB ==
    (mode = "idm" /\ i >= 1 /\ s <= 0) => a = -params.b

\* A call with a gap of exactly 0 and a moving follower has returned.
C1_Witness ==
    /\ mode = "idm" /\ i >= 1 /\ s = 0
    /\ heap[follower].v > 0
    /\ a = -params.b

\* C3: every follower velocity recorded by simulate_idm is >= 0, also from a
\* negative initial follower velocity.
C3_VelocityNonNegative ==
    mode = "idm" => \A k \in 1..Len(result) : ResultV(k) >= 0

\* A run from a negative initial follower velocity whose first step was
\* clamped at zero.
C3_Witness ==
    /\ mode = "idm" /\ i >= 1
    /\ heap[follower_init].v < 0
    /\ heap[follower_init].v + FMul(a, dt) < 0
    /\ ResultV(1) = 0

C8_InputsUnchanged ==
    [][mode = "idm" =>
        /\ heap'[lead_init] = heap[lead_init]
        /\ heap'[follower_init] = heap[follower_init]
        /\ lead_init' = lead_init /\ follower_init' = follower_init
        /\ params' = params]_vars

\* The run has moved its own lead and follower away from the caller's values.
C8_Witness ==
    /\ mode = "idm" /\ i >= 1
    /\ heap[lead] # heap[lead_init]
    /\ heap[follower] # heap[follower_init]

\* The run main() makes without --plot.
IsDemoRun ==
    /\ mode = "idm" /\ pc # "idm_enter"
    /\ params = DemoParams /\ dt = DefaultDt
    /\ steps = DemoSteps /\ lead_speed = DemoLeadSpeed
    /\ heap[lead_init] = VehicleState(50 * Scale, 10 * Scale)
    /\ heap[follower_init] = VehicleState(0, 0)

\* C10 as stated: in the demo run the follower velocity is non-decreasing
\* from sample to sample and never exceeds 10.0 m/s.
C10_Original ==
    IsDemoRun =>
        \A k \in 1..Len(result) :
            /\ ResultV(k) <= 10 * Scale
            /\ k > 1 => ResultV(k) >= ResultV(k - 1)

\* C10 as amended: in the demo run the follower velocity never exceeds the
\* desired speed v0 = 15.0 m/s, and it does not decrease from a sample at or
\* below 10.0 m/s to the next.
C10_DemoVelocity ==
    IsDemoRun =>
        \A k \in 1..Len(result) :
            /\ ResultV(k) <= params.v0
            /\ (k > 1 /\ ResultV(k - 1) <= 10 * Scale) => ResultV(k) >= ResultV(k - 1)

\* The demo run has returned, having exceeded 10.0 m/s and then slowed down.
C10_Witness ==
    /\ IsDemoRun /\ pc = "idm_done"
    /\ \E k \in 2..Len(result) :
        ResultV(k - 1) > 10 * Scale /\ ResultV(k) < ResultV(k - 1)

-----------------------------------------------------------------------------
(* Properties of the route profile generator.                              *)

\* The number of arrival samples among the first k samples.
ArrivalsUpTo(k) == Cardinality({m \in 1..k : kind[m] = "arrive"})

\* The leg (the value of idx) during which sample k > 1 was appended.
LegOf(k) == IF kind[k] = "arrive" THEN ArrivalsUpTo(k) ELSE
            IF kind[k] = "dwell" THEN ArrivalsUpTo(k) ELSE ArrivalsUpTo(k) + 1

\* The leg with this idx has run to the end of its dwell loop.
LegComplete(leg) == pc = "route_done" \/ leg < idx

\* floor(p / q) for q > 0.
Floor(p, q) == p \div q

\* C2: no value of the velocity sequence of simulate_route exceeds v_max.
C2_BoundedSpeed ==
    mode = "route" => \A k \in 1..Len(vel) : vel[k] <= v_max

\* A moving sample at v_max where one more accel * dt would have passed it.
C2_Witness ==
    /\ mode = "route"
    /\ \E k \in 2..Len(vel) :
        /\ kind[k] = "move" /\ vel[k] = v_max
        /\ vel[k - 1] < v_max
        /\ vel[k - 1] + FMul(accel, dt) > v_max

\* Some station is at or before the one before it.
NotStrictlyIncreasing ==
    \E leg \in 1..(Len(stations) - 1) : stations[leg + 1] <= stations[leg]

\* C4 as stated: with a station list that is not strictly increasing the
\* generator never returns.
C4_Original ==
    (mode = "route" /\ NotStrictlyIncreasing) => pc # "route_done"

\* C4 as amended: a leg whose station is at or before the previous station
\* takes no moving step: every moving sample belongs to a leg whose station
\* lies beyond the previous one, and the arrival sample of any other leg
\* directly follows the last sample of the leg before it.
C4_NoMoveInBackwardLeg ==
    mode = "route" =>
        \A k \in 2..Len(kind) :
            /\ kind[k] = "move" => stations[LegOf(k) + 1] > stations[LegOf(k)]
            /\ (kind[k] = "arrive" /\ stations[LegOf(k) + 1] <= stations[LegOf(k)])
                  => (kind[k - 1] # "move" /\ pos[k] = stations[LegOf(k) + 1])

\* A route with a backward leg after a forward one has returned.
C4_Witness ==
    /\ mode = "route" /\ pc = "route_done"
    /\ Len(stations) = 3
    /\ stations[2] > stations[1] /\ stations[3] < stations[2]

\* C5: after the arrival sample of every leg exactly floor(dwell_time / dt)
\* samples follow before the next leg starts or the run ends, each with
\* velocity 0 and position equal to the leg's target station.
C5_DwellSamples ==
    mode = "route" =>
        \A k \in 2..Len(kind) :
            (kind[k] = "arrive" /\ LegComplete(LegOf(k))) =>
                LET n == Floor(dwell_time, dt)
                IN /\ k + n <= Len(kind)
                   /\ \A m \in (k + 1)..(k + n) :
                        /\ kind[m] = "dwell"
                        /\ vel[m] = 0
                        /\ pos[m] = stations[LegOf(k) + 1]
                   /\ k + n < Len(kind) => kind[k + n + 1] # "dwell"

\* A two-leg route has returned with a dwell time that is no multiple of dt.
C5_Witness ==
    /\ mode = "route" /\ pc = "route_done"
    /\ Len(stations) = 3
    /\ dwell_time % dt # 0
    /\ Floor(dwell_time, dt) = 2

\* C6 as stated: every sample's time is greater than the time of the
\* sample before it.
C6_Original ==
    mode = "route" => \A k \in 2..Len(time) : time[k] > time[k - 1]

\* C6 as amended: the time sequence never decreases: every moving or dwell
\* sample is dt later than the sample before it, and every arrival sample
\* repeats the time of the sample before it.
C6_TimeOrder ==
    mode = "route" =>
        \A k \in 2..Len(time) :
            IF kind[k] = "arrive"
            THEN time[k] = time[k - 1]
            ELSE time[k] = time[k - 1] + dt

\* An arrival sample between a moving sample and a dwell sample.
C6_Witness ==
    /\ mode = "route"
    /\ \E k \in 2..(Len(time) - 1) :
        /\ kind[k - 1] = "move" /\ kind[k] = "arrive" /\ kind[k + 1] = "dwell"
        /\ time[k] = time[k - 1]
        /\ time[k + 1] > time[k]

\* C9: the sample appended right after the moving loop of every leg has
\* velocity exactly 0 and position exactly the leg's target station.
C9_ArrivalSample ==
    mode = "route" =>
        \A k \in 2..Len(kind) :
            kind[k] = "arrive" => (vel[k] = 0 /\ pos[k] = stations[LegOf(k) + 1])

\* An arrival sample after a last moving sample that was past the target at
\* a non-zero velocity.
C9_Witness ==
    /\ mode = "route"
    /\ \E k \in 2..Len(kind) :
        /\ kind[k] = "arrive" /\ kind[k - 1] = "move"
        /\ vel[k - 1] > 0 /\ pos[k - 1] > pos[k]

\* The number of samples among the first k that the append statement knd made.
CountKind(knd, k) == Cardinality({m \in 1..k : kind[m] = knd})

\* The route main() simulates with --plot.
IsDemoRoute ==
    /\ mode = "route"
    /\ stations = DemoStations /\ dwell_time = DemoDwell
    /\ accel = DefaultAccel /\ decel = DefaultDecel /\ v_max = DefaultVMax
    /\ dt = DefaultDt

\* C11: the final time returned by simulate_route is dt times the number of
\* moving steps of all legs plus floor(dwell_time / dt) dwell steps for each
\* leg; the arrival samples add no time.  For the demo route the dwell part
\* is 3 x 60 steps.
C11_FinalTime ==
    (mode = "route" /\ pc = "route_done") =>
        LET n == Len(time)
            legs == Len(stations) - 1
        IN /\ CountKind("arrive", n) = legs
           /\ CountKind("dwell", n) = legs * Floor(dwell_time, dt)
           /\ time[n] = dt * (CountKind("move", n) + legs * Floor(dwell_time, dt))
           /\ IsDemoRoute => CountKind("dwell", n) = 3 * 60

\* The demo route has returned, with moving, arrival and dwell samples.
C11_Witness ==
    /\ IsDemoRoute /\ pc = "route_done"
    /\ CountKind("move", Len(time)) > 0
    /\ CountKind("arrive", Len(time)) = 3
    /\ time[Len(time)] > 0

\* C12: simulate_route called with a station list of length 1 returns only
\* the initial sample: time = [0.0], position = [stations[0]],
\* velocity = [0.0], with no arrival or dwell sample.
C12_SingleStation ==
    (mode = "route" /\ Len(stations) = 1 /\ pc = "route_done") =>
        /\ time = <<0>>
        /\ pos = <<stations[1]>>
        /\ vel = <<0>>
        /\ kind = <<"init">>

\* A call with a single station away from the origin has returned.
C12_Witness ==
    /\ mode = "route" /\ pc = "route_done"
    /\ Len(stations) = 1 /\ stations[1] > 0
    /\ Len(time) = 1

\* C13: the three sequences time, pos and vel of simulate_route have equal
\* length at the start, after every moving step, after every arrival sample
\* and after every dwell step, and so on return.
C13_EqualLengths ==
    mode = "route" =>
        /\ Len(time) = Len(pos)
        /\ Len(pos) = Len(vel)
        /\ pc # "route_enter" => Len(time) >= 1

\* A run has returned with moving, arrival and dwell samples in its lists.
C13_Witness ==
    /\ mode = "route" /\ pc = "route_done"
    /\ Len(time) = Len(vel) /\ Len(time) = Len(pos)
    /\ CountKind("move", Len(time)) > 0
    /\ CountKind("arrive", Len(time)) = 2
    /\ CountKind("dwell", Len(time)) > 0

-----------------------------------------------------------------------------
(* Further properties of the follower simulator.                           *)

\* The samples simulate_idm returns for the lead and follower objects
\* h[1] and h[2], parameters p, step d, n steps and lead speed ls.
RECURSIVE IdmSamples(_, _, _, _, _)
IdmSamples(h, p, d, n, ls) ==
    IF n = 0 THEN <<>>
    ELSE LET h1 == AdvanceLead(h, 1, ls, d)
             acc == idm_acceleration(h1[1], h1[2], p)
             h2 == AdvanceFollower(h1, 2, acc, d)
         IN <<<<h2[2].x, h2[2].v>>>> \o IdmSamples(h2, p, d, n - 1, ls)

\* C14: simulate_marche_type(lead_init, follower_init, params, dt, steps,
\* lead_speed) returns the sample sequence that
\* MarcheTypeSimulator(params, dt).simulate_idm(lead_init, follower_init,
\* steps, lead_speed) returns: either call, made with the same arguments,
\* returns IdmSamples of those arguments.
C14_FreeFunctionDelegates ==
    (mode = "idm" /\ pc = "idm_done") =>
        IF fargs = <<>>
        THEN result = IdmSamples(<<heap[lead_init], heap[follower_init]>>,
                                 params, dt, steps, lead_speed)
        ELSE result = IdmSamples(<<heap[fargs[1].lead_init],
                                   heap[fargs[1].follower_init]>>,
                                 fargs[1].params, fargs[1].dt, fargs[1].steps,
                                 fargs[1].lead_speed)

\* A simulate_marche_type call with a dt other than the default has returned
\* its samples.
C14_Witness ==
    /\ mode = "idm" /\ pc = "idm_done"
    /\ fargs # <<>>
    /\ fargs[1].dt # DefaultDt
    /\ fargs[1].steps = MaxSteps
    /\ Len(result) = MaxSteps

\* C15: in simulate_idm the lead vehicle is exogenous: after k steps its
\* velocity is lead_speed and its position is lead_init.x + k * lead_speed *
\* dt, whatever lead_init.v and the follower are; before the first step it
\* is the copy of lead_init.
C15_LeadExogenous ==
    (mode = "idm" /\ pc \in {"idm_loop", "idm_done"}) =>
        /\ heap[lead].x = heap[lead_init].x + i * FMul(lead_speed, dt)
        /\ heap[lead].v = IF i = 0 THEN heap[lead_init].v ELSE lead_speed

\* The lead started at a velocity other than lead_speed, and all the steps
\* of a run with a non-zero lead_speed have been taken.
C15_Witness ==
    /\ mode = "idm" /\ pc = "idm_done"
    /\ i = MaxSteps
    /\ lead_speed # 0
    /\ heap[lead_init].v # lead_speed
    /\ heap[lead].x # heap[lead_init].x

\* The position of sample k of simulate_idm's result.
ResultX(k) == result[k][1]

\* C18: in simulate_idm the follower never moves backwards: the position of
\* the first sample is at least follower_init.x, and the position of every
\* later sample is at least that of the sample before it, for any initial
\* states (a negative initial velocity included) and any lead_speed.
C18_FollowerNeverBacks ==
    (mode = "idm" /\ pc \in {"idm_loop", "idm_done"}) =>
        \A k \in 1..Len(result) :
            ResultX(k) >= (IF k = 1 THEN heap[follower_init].x
                                    ELSE ResultX(k - 1))

\* A follower that started with a negative velocity stood still in the
\* first step, where the clamp acted, and advanced in a later one.
C18_Witness ==
    /\ mode = "idm" /\ pc = "idm_done"
    /\ heap[follower_init].v < 0
    /\ Len(result) = MaxSteps
    /\ ResultX(1) = heap[follower_init].x
    /\ ResultX(MaxSteps) > ResultX(1)

-----------------------------------------------------------------------------
(* Further properties of the route generator.                              *)

StrictlyIncreasing ==
    \A leg \in 1..(Len(stations) - 1) : stations[leg] < stations[leg + 1]

\* The moving loop has braked the vehicle to a stop short of the target.
StoppedShort ==
    /\ mode = "route" /\ pc = "route_leg"
    /\ idx < Len(stations)
    /\ kind[Len(kind)] = "move"
    /\ v = 0
    /\ StillMoving(x, target)

\* C16: with a strictly increasing station list and decel > 0 (accel, v_max,
\* dt > 0 and dwell_time >= 0 as always) simulate_route returns; and when
\* braking has brought the velocity to 0 before the target, the next step of
\* the moving loop accelerates and moves the vehicle forward.
C16_RouteTerminates ==
    /\ (mode = "route" /\ pc = "route_enter" /\ StrictlyIncreasing /\ decel > 0)
           ~> (pc = "route_done")
    /\ [][(StoppedShort /\ decel > 0) =>
              (kind'[Len(kind')] = "move" /\ v' > 0 /\ x' > x)]_vars

\* A run over a strictly increasing list has returned, in which a moving
\* step braked to velocity 0 short of the station and the next one
\* accelerated.
C16_Witness ==
    /\ mode = "route" /\ pc = "route_done"
    /\ StrictlyIncreasing /\ decel > 0
    /\ Len(stations) >= 2
    /\ \E k \in 2..(Len(vel) - 1) :
          /\ kind[k] = "move" /\ kind[k + 1] = "move"
          /\ vel[k - 1] > 0 /\ vel[k] = 0 /\ vel[k + 1] > 0
          /\ pos[k] < pos[k + 1]

\* C17: every position simulate_route records during a leg is less than the
\* leg's target plus v_max * dt: a moving step's sample, the last of the
\* lists right after the step, overshoots the station by less than one step
\* of travel at v_max, and the arrival and dwell samples are at the station.
C17_OvershootBound ==
    (mode = "route" /\ pc \in {"route_leg", "route_dwell"}) =>
        LET n == Len(pos)
        IN /\ (pc = "route_leg" /\ kind[n] = "move") =>
                  pos[n] < target + FMul(v_max, dt)
           /\ pc = "route_dwell" =>
                  (pos[n] = target /\ pos[n] < target + FMul(v_max, dt))

\* The moving loop has just stepped past the station.
C17_Witness ==
    /\ mode = "route" /\ pc = "route_leg"
    /\ idx < Len(stations)
    /\ kind[Len(kind)] = "move"
    /\ pos[Len(pos)] > target
    /\ pos[Len(pos) - 1] < target

\* C19: with decel > 0 (accel, v_max, dt > 0 as always) every value of the
\* velocity sequence of simulate_route is greater than or equal to 0,
\* whichever statement appended it: the initial sample, an accelerating,
\* cruising or braking step, an arrival or a dwell step.
C19_VelocityNonNegative ==
    (mode = "route" /\ decel > 0) => \A k \in 1..Len(vel) : vel[k] >= 0

\* A returned run in which a braking step would have gone below zero
\* without the clamp.
C19_Witness ==
    /\ mode = "route" /\ pc = "route_done"
    /\ decel > 0
    /\ \E k \in 2..Len(vel) :
          /\ kind[k] = "move"
          /\ vel[k - 1] > 0
          /\ vel[k - 1] - FMul(decel, dt) < 0
          /\ vel[k] = 0

====
